---- MODULE Spec2Model ----
(***************************************************************************)
(* swdhost: the semihosting console host of swddude.                       *)
(*                                                                         *)
(* The model follows source/swdhost.cpp: main, error_main (bring-up and    *)
(* teardown of the FTDI bridge), host_main (target bring-up and the poll   *)
(* loop), handle_halt and write_char.  The target behind the SWD link is   *)
(* the environment: it halts on its own with some DFSR, PC, R0 and R1, and *)
(* every operation the host orders of it either succeeds or fails.         *)
(***************************************************************************)
EXTENDS Integers, Sequences, FiniteSets, TLC

(***************************************************************************)
(* Bounds of the model.                                                    *)
(***************************************************************************)
\* how many times the target halts in one session
MaxHalts == 2
\* the largest of the small word counts dumped
MaxWords == 3

(***************************************************************************)
(* Program constants.                                                      *)
(***************************************************************************)
\* CheckRetry(..., 100)
RetryBound == 100
\* halfword_t is 16 bits wide.  A word_t, 32 bits wide, is the pair
\* <<high halfword, low halfword>>: TLC's integers stop short of 2^32.
HalfMod == 65536
Word(hi, lo) == <<hi, lo>>
\* ~0x3, the mask of pc & ~0x3
InstrAlignMask == Word(65535, 65532)
\* BKPT #0xAB, 0xBEAB
SemihostInstr == 48811
\* SYS_WRITEC, 0x3
SysWriteC == Word(0, 3)
\* SCB::DFSR (0xE000ED30), DCB::DHCSR (0xE000EDF0) and their bits
\* (armv6m_v7m.h)
DFSR_Address == Word(57344, 60720)
DFSR_reason_mask == Word(0, 31)
DFSR_BKPT == Word(0, 2)
DHCSR_Address == Word(57344, 60912)
DHCSR_S_HALT == Word(2, 0)
\* Register::R0, Register::R1, Register::PC (arm.h)
RegR0 == Word(0, 0)
RegR1 == Word(0, 1)
RegPC == Word(0, 15)
\* a local that holds no value (not yet assigned, or out of scope)
Undef == <<>>
\* count("count", true, 32, "Words to dump")
DefaultCount == 32

(***************************************************************************)
(* Bitwise arithmetic on 32-bit words.                                     *)
(***************************************************************************)
RECURSIVE BitAnd(_, _)
BitAnd(a, b) ==
    IF a = 0 \/ b = 0 THEN 0
    ELSE (a % 2) * (b % 2) + 2 * BitAnd(a \div 2, b \div 2)

\* a & b on words
WordAnd(a, b) == Word(BitAnd(a[1], b[1]), BitAnd(a[2], b[2]))

\* a + b on words, modulo 2^32
WordAdd(a, b) ==
    LET lo == a[2] + b[2]
        hi == a[1] + b[1] + (lo \div HalfMod)
    IN  Word(hi % HalfMod, lo % HalfMod)

\* w >> 16
ShiftRight16(w) == Word(0, w[1])

\* conversion of a word to halfword_t keeps the low 16 bits
ToHalfword(w) == w[2]

(***************************************************************************)
(* The inputs the environment draws from.                                  *)
(***************************************************************************)
\* DFSR: BKPT alone, BKPT with HALTED, HALTED alone, BKPT with EXTERNAL,
\* BKPT with a bit above the reason field
DfsrValues == {Word(0, 2), Word(0, 3), Word(0, 1), Word(0, 18), Word(0, 34)}
\* PC: low halfword, high halfword, high halfword, odd, last halfword of the
\* address space
PcValues == {Word(0, 0), Word(0, 2), Word(0, 258), Word(0, 259),
             Word(65535, 65534)}
\* R0: SYS_WRITEC, SYS_WRITE0
R0Values == {Word(0, 3), Word(0, 4)}
\* R1: 'X', 0x12345641
R1Values == {Word(0, 88), Word(4660, 22081)}
\* DHCSR bits other than S_HALT: C_DEBUGEN; C_DEBUGEN, C_HALT and S_REGRDY
DhcsrOtherBits == {Word(0, 1), Word(1, 3)}
ProgrammerNames == {"um232h", "bus_blaster", "jlink"}

\* The target's memory image: the word at 0x0 holds BKPT 0xAB in its low
\* halfword and BKPT 0x01 (0xBE01) in its high one, the word at 0x100 the
\* reverse, and the last word of the address space BKPT 0xAB in its high
\* halfword.
TargetMemory(addr) ==
    CASE addr = Word(0, 0)         -> Word(48641, 48811)
      [] addr = Word(0, 256)       -> Word(48811, 48641)
      [] addr = Word(65535, 65532) -> Word(48811, 0)
      [] OTHER                     -> Word(0, 0)

VARIABLES
    mpc,          \* where the program is
    exit_code,    \* what main returned (-1 while it runs)
    check_error,  \* error_main's check_error
    em_result,    \* what error_main returned ("none" until it returns)
    held,         \* the resources error_main holds
    released,     \* the teardown calls made, in order
    bitmode,      \* the bridge's bit mode
    in_reset,     \* whether the target's reset line is asserted
    bringup,      \* the bring-up steps of host_main that succeeded, in order
    attempts,     \* the attempt CheckRetry is at
    dhcsr,        \* host_main's local
    dfsr, pc, instr_word, operation, parameter,   \* handle_halt's locals
    hh_result,    \* what the last handle_halt returned
    ops,          \* the operations the current handle_halt has completed
    retried,      \* whether an attempt failed in the current handle_halt
    warnings,     \* the warnings the current handle_halt has logged
    stdout_buf,   \* bytes putchar has buffered
    console,      \* bytes delivered to the console
    t_halted, t_dfsr, t_pc, t_r0, t_r1,   \* the target
    halts,        \* how many times the target has halted
    h_pc,         \* the PC the target last halted at
    requests,     \* the bytes of the SYS_WRITEC requests the target halted at
    count,        \* CommandLine::count of the dump tools
    dump_i,       \* dump_flash's loop variable
    dump_out      \* the lines dump_flash has reported

locals == <<dhcsr, dfsr, pc, instr_word, operation, parameter>>
target == <<t_halted, t_dfsr, t_pc, t_r0, t_r1, halts, h_pc>>
bridge == <<check_error, em_result, held, released, bitmode>>
output == <<stdout_buf, console>>
dump == <<count, dump_i, dump_out>>
vars == <<mpc, exit_code, bridge, in_reset, bringup, attempts, locals,
          hh_result, ops, retried, warnings, output, target, requests, dump>>

InitState ==
    /\ exit_code = -1
    /\ check_error = "success"
    /\ em_result = "none"
    /\ held = {}
    /\ released = <<>>
    /\ bitmode = "reset"
    /\ in_reset = FALSE
    /\ bringup = <<>>
    /\ attempts = 1
    /\ dhcsr = Undef /\ dfsr = Undef /\ pc = Undef /\ instr_word = Undef
    /\ operation = Undef /\ parameter = Undef
    /\ hh_result = "none"
    /\ ops = <<>>
    /\ retried = FALSE
    /\ warnings = <<>>
    /\ stdout_buf = <<>>
    /\ console = <<>>
    /\ t_halted = FALSE
    /\ t_dfsr = Word(0, 0) /\ t_pc = Word(0, 0)
    /\ t_r0 = Word(0, 0) /\ t_r1 = Word(0, 0)
    /\ halts = 0
    /\ h_pc = Word(0, 0)
    /\ requests = <<>>
    /\ count = DefaultCount
    /\ dump_i = Undef
    /\ dump_out = <<>>

\* swdhost starts in its main
Init == mpc = "main_parse" /\ InitState

session == <<in_reset, bringup, attempts, locals, hh_result, ops, retried,
             warnings, output, target>>

(***************************************************************************)
(* main: parse the command line, run error_main, turn its result into the  *)
(* exit code.                                                              *)
(***************************************************************************)
MainParse ==
    /\ mpc = "main_parse"
    /\ \E parsed \in BOOLEAN :
         IF parsed
         THEN mpc' = "em_lookup" /\ UNCHANGED exit_code
         ELSE mpc' = "exit" /\ exit_code' = 1
    /\ UNCHANGED <<bridge, session>>

\* main returning 0 whatever error_main returned
ExitCodeZero(result) == 0

\* what main returns for a result of error_main
ExitCodeOf(result) == IF result = "success" THEN 0 ELSE 1

MainCheckErrorMain ==
    /\ mpc = "main_check"
    /\ mpc' = "exit"
    /\ exit_code' = ExitCodeOf(em_result)
    /\ UNCHANGED <<bridge, session>>

(***************************************************************************)
(* error_main: bring the bridge up.                                        *)
(***************************************************************************)
LookupProgrammer(name) == name \in {"um232h", "bus_blaster"}

\* Check(lookup_programmer(...)): a failure is returned at once
ErrorMainLookup ==
    /\ mpc = "em_lookup"
    /\ \E name \in ProgrammerNames :
         IF LookupProgrammer(name)
         THEN mpc' = "em_libusb_init" /\ UNCHANGED em_result
         ELSE mpc' = "main_check" /\ em_result' = "failure"
    /\ UNCHANGED <<exit_code, check_error, held, released, bitmode, session>>

\* CheckCleanup*(call, label): on success go on, holding what the call
\* acquired; on failure set check_error and jump to the label
BringUpStep(here, next, label, acquired) ==
    /\ mpc = here
    /\ \E ok \in BOOLEAN :
         IF ok
         THEN /\ mpc' = next
              /\ held' = held \cup acquired
              /\ UNCHANGED check_error
         ELSE /\ mpc' = label
              /\ check_error' = "failure"
              /\ UNCHANGED held
    /\ UNCHANGED <<exit_code, em_result, released, bitmode, session>>

LibusbInit ==
    BringUpStep("em_libusb_init", "em_ftdi_init", "l_libusb_init_failed",
                {"libusb"})
FtdiInit ==
    BringUpStep("em_ftdi_init", "em_open_vid_pid", "l_ftdi_init_failed",
                {"ftdi"})
LibusbOpenDevice ==
    BringUpStep("em_open_vid_pid", "em_get_device", "l_libusb_open_failed",
                {"handle"})
LibusbGetDevice ==
    BringUpStep("em_get_device", "em_set_interface", "l_get_failed", {})
FtdiSetInterface ==
    BringUpStep("em_set_interface", "em_usb_open_dev", "l_get_failed", {})
FtdiUsbOpenDev ==
    BringUpStep("em_usb_open_dev", "em_usb_reset", "l_get_failed",
                {"ftdi_dev"})
FtdiUsbReset ==
    BringUpStep("em_usb_reset", "em_read_chipid", "l_reset_failed", {})
FtdiReadChipid ==
    BringUpStep("em_read_chipid", "hm_initialize", "l_reset_failed", {})

(***************************************************************************)
(* error_main: teardown.  The labels fall through to one another.          *)
(***************************************************************************)
\* host_failed: CheckP(ftdi_set_bitmode(&ftdi, 0xFF, BITMODE_RESET))
TeardownBitmode ==
    /\ mpc = "l_host_failed"
    /\ \E ok \in BOOLEAN :
         IF ok
         THEN /\ mpc' = "l_reset_failed"
              /\ bitmode' = "reset"
              /\ released' = Append(released, "set_bitmode_reset")
              /\ UNCHANGED em_result
         ELSE /\ mpc' = "main_check"
              /\ em_result' = "failure"
              /\ UNCHANGED <<bitmode, released>>
    /\ UNCHANGED <<exit_code, check_error, held, session>>

\* read_failed, reset_failed: CheckStringP(ftdi_usb_close(&ftdi), ...)
TeardownUsbClose ==
    /\ mpc = "l_reset_failed"
    /\ \E ok \in BOOLEAN :
         IF ok
         THEN /\ mpc' = "l_get_failed"
              /\ held' = held \ {"ftdi_dev"}
              /\ released' = Append(released, "ftdi_usb_close")
              /\ UNCHANGED em_result
         ELSE /\ mpc' = "main_check"
              /\ em_result' = "failure"
              /\ UNCHANGED <<held, released>>
    /\ UNCHANGED <<exit_code, check_error, bitmode, session>>

\* a teardown call whose result is not looked at
TeardownStep(here, next, call, resource) ==
    /\ mpc = here
    /\ mpc' = next
    /\ held' = held \ {resource}
    /\ released' = Append(released, call)
    /\ UNCHANGED <<exit_code, check_error, em_result, bitmode, session>>

\* open_failed, interface_failed, get_failed: libusb_close(handle)
TeardownLibusbClose ==
    TeardownStep("l_get_failed", "l_libusb_open_failed", "libusb_close",
                 "handle")
\* libusb_open_failed: ftdi_deinit(&ftdi)
TeardownFtdiDeinit ==
    TeardownStep("l_libusb_open_failed", "l_ftdi_init_failed", "ftdi_deinit",
                 "ftdi")
\* ftdi_init_failed: libusb_exit(libusb)
TeardownLibusbExit ==
    TeardownStep("l_ftdi_init_failed", "l_libusb_init_failed", "libusb_exit",
                 "libusb")

\* libusb_init_failed: return check_error
ErrorMainReturn ==
    /\ mpc = "l_libusb_init_failed"
    /\ mpc' = "main_check"
    /\ em_result' = check_error
    /\ UNCHANGED <<exit_code, check_error, held, released, bitmode, session>>

(***************************************************************************)
(* host_main: bring the target up.                                         *)
(***************************************************************************)
\* host_main returns a failure: error_main's CheckCleanup(host_main(swd),
\* host_failed) sets check_error and jumps to host_failed
HostMainFails ==
    /\ mpc' = "l_host_failed"
    /\ check_error' = "failure"
    /\ dhcsr' = Undef

\* Check(step): on success go on, on failure return the failure
HostStep(here, next, step, resetLine, mode) ==
    /\ mpc = here
    /\ \E ok \in BOOLEAN :
         IF ok
         THEN /\ mpc' = next
              /\ bringup' = Append(bringup, step)
              /\ in_reset' = resetLine
              /\ bitmode' = mode
              /\ UNCHANGED <<check_error, dhcsr>>
         ELSE /\ HostMainFails
              /\ UNCHANGED <<bringup, in_reset, bitmode>>
    /\ UNCHANGED <<exit_code, em_result, held, released, attempts, dfsr, pc,
                   instr_word, operation, parameter, hh_result, ops, retried,
                   warnings, output, target>>

SwdInitialize ==
    HostStep("hm_initialize", "hm_enter_reset", "swd.initialize", in_reset,
             "mpsse")
SwdEnterReset ==
    HostStep("hm_enter_reset", "hm_dap_reset", "swd.enter_reset", TRUE,
             bitmode)
DapResetState ==
    HostStep("hm_dap_reset", "hm_target_init", "dap.reset_state", in_reset,
             bitmode)
\* target.initialize() with its result dropped
TargetInitializeUnchecked ==
    /\ mpc = "hm_target_init"
    /\ mpc' = "hm_reset_halt_state"
    /\ \E ok \in BOOLEAN :
         bringup' = IF ok THEN Append(bringup, "target.initialize")
                          ELSE bringup
    /\ UNCHANGED <<exit_code, bridge, in_reset, attempts, locals, hh_result,
                   ops, retried, warnings, output, target>>

TargetInitialize ==
    HostStep("hm_target_init", "hm_reset_halt_state", "target.initialize",
             in_reset, bitmode)
TargetResetHaltState ==
    HostStep("hm_reset_halt_state", "hm_leave_reset",
             "target.reset_halt_state", in_reset, bitmode)
SwdLeaveReset ==
    HostStep("hm_leave_reset", "hm_poll", "swd.leave_reset", FALSE, bitmode)

(***************************************************************************)
(* The target: running, it halts on its own.                               *)
(***************************************************************************)
TargetHalts ==
    /\ mpc = "hm_poll"
    /\ ~t_halted
    /\ halts < MaxHalts
    /\ t_halted' = TRUE
    /\ halts' = halts + 1
    /\ t_dfsr' \in DfsrValues
    /\ t_pc' \in PcValues
    /\ h_pc' = t_pc'
    /\ t_r0' \in R0Values
    /\ t_r1' \in R1Values
    /\ UNCHANGED <<mpc, exit_code, bridge, in_reset, bringup, attempts, locals,
                   hh_result, ops, retried, warnings, output>>

\* what a read of DHCSR returns
TargetDhcsr(other) ==
    WordAdd(IF t_halted THEN DHCSR_S_HALT ELSE Word(0, 0), other)

(***************************************************************************)
(* host_main: the poll loop.                                               *)
(***************************************************************************)
\* a test of the whole word: if (dhcsr)
AnyBitSet(d) == d # Word(0, 0)

\* dhcsr & DCB::DHCSR_S_HALT
HaltBitSet(d) == WordAnd(d, DHCSR_S_HALT) # Word(0, 0)

\* CheckRetry(target.read_word(DCB::DHCSR, &dhcsr), 100);
\* if (dhcsr & DCB::DHCSR_S_HALT) handle_halt is entered
HostPoll ==
    /\ mpc = "hm_poll"
    /\ \E ok \in BOOLEAN, other \in DhcsrOtherBits :
         IF ok
         THEN /\ dhcsr' = TargetDhcsr(other)
              /\ attempts' = 1
              /\ mpc' = IF HaltBitSet(dhcsr') THEN "hh_dfsr" ELSE "hm_poll"
              /\ UNCHANGED check_error
         ELSE IF attempts < RetryBound
         THEN /\ attempts' = attempts + 1
              /\ UNCHANGED <<mpc, dhcsr, check_error>>
         ELSE /\ HostMainFails
              /\ attempts' = 1
    /\ UNCHANGED <<exit_code, em_result, held, released, bitmode, in_reset,
                   bringup, dfsr, pc, instr_word, operation, parameter,
                   hh_result, ops, retried, warnings, output, target>>

\* a loop that ends after the first serviced halt: host_main returns
\* Err::success, and error_main falls into host_failed with check_error
\* untouched
HostCheckHaltReturns ==
    /\ mpc = "hh_ret"
    /\ IF hh_result = "success"
       THEN /\ mpc' = "l_host_failed"
            /\ dhcsr' = Undef
            /\ UNCHANGED check_error
       ELSE HostMainFails
    /\ hh_result' = "none"
    /\ ops' = <<>>
    /\ warnings' = <<>>
    /\ retried' = FALSE
    /\ UNCHANGED <<exit_code, em_result, held, released, bitmode, in_reset,
                   bringup, attempts, dfsr, pc, instr_word, operation,
                   parameter, output, target>>

\* Check(handle_halt(target)): on success the loop goes round, on failure
\* host_main returns the failure
HostCheckHalt ==
    /\ mpc = "hh_ret"
    /\ IF hh_result = "success"
       THEN /\ mpc' = "hm_poll"
            /\ dhcsr' = Undef
            /\ UNCHANGED check_error
       ELSE HostMainFails
    /\ hh_result' = "none"
    /\ ops' = <<>>
    /\ warnings' = <<>>
    /\ retried' = FALSE
    /\ UNCHANGED <<exit_code, em_result, held, released, bitmode, in_reset,
                   bringup, attempts, dfsr, pc, instr_word, operation,
                   parameter, output, target>>

(***************************************************************************)
(* handle_halt.                                                            *)
(***************************************************************************)
Op(name, a, v, succeeded) == [op |-> name, arg |-> a, val |-> v, ok |-> succeeded]

\* a test of the BKPT bit alone: dfsr & SCB::DFSR_BKPT
IsBkptHaltBitTest(d) == WordAnd(d, DFSR_BKPT) # Word(0, 0)

\* a comparison without the mask: dfsr == SCB::DFSR_BKPT
IsBkptHaltNoMask(d) == d = DFSR_BKPT

\* (dfsr & SCB::DFSR_reason_mask) == SCB::DFSR_BKPT
IsBkptHalt(d) == WordAnd(d, DFSR_reason_mask) = DFSR_BKPT

\* rptr<word_t> instr_word_address(pc & ~0x3)
InstrWordAddress(p) == WordAnd(p, InstrAlignMask)

\* an extraction that always takes the low halfword
ExtractInstrLow(p, w) == ToHalfword(WordAnd(w, Word(0, 65535)))

\* halfword_t instr = pc & 2 ? instr_word >> 16 : instr_word & 0xFFFF
ExtractInstr(p, w) ==
    ToHalfword(IF WordAnd(p, Word(0, 2)) # Word(0, 0)
               THEN ShiftRight16(w)
               ELSE WordAnd(w, Word(0, 65535)))

\* a test for any BKPT instruction: (instr & 0xFF00) == 0xBE00
IsAnyBkpt(instr) == instr \div 256 = 190

\* instr == 0xBEAB
IsSemihostingBkpt(instr) == instr = SemihostInstr

\* a switch whose case 0x4 falls into case 0x3
IsWriteCOrWrite0(o) == o \in {SysWriteC, Word(0, 4)}

\* switch (operation): case 0x3
IsWriteC(o) == o = SysWriteC

\* an advance past a 32-bit instruction: pc += 4
AdvancePcBy4(p) == WordAdd(p, Word(0, 4))

\* pc += 2, on a 32-bit word
AdvancePc(p) == WordAdd(p, Word(0, 2))

\* a console write of the low halfword, not cut down to a byte
PutcharWhole(p) == p[2]

\* putchar(parameter) writes its argument converted to unsigned char
PutcharByte(p) == p[2] % 256

\* handle_halt returns: its locals go out of scope
HaltReturns(result) ==
    /\ mpc' = "hh_ret"
    /\ hh_result' = result
    /\ dfsr' = Undef /\ pc' = Undef /\ instr_word' = Undef
    /\ operation' = Undef /\ parameter' = Undef
    /\ attempts' = 1

\* a failed attempt of CheckRetry(call, 100): try again, or after the last
\* attempt return the failure
RetryOrFail(name, a) ==
    /\ retried' = TRUE
    /\ UNCHANGED <<warnings, target>>
    /\ IF attempts < RetryBound
       THEN /\ attempts' = attempts + 1
            /\ UNCHANGED <<mpc, hh_result, ops, dfsr, pc, instr_word,
                           operation, parameter>>
       ELSE /\ HaltReturns("failure")
            /\ ops' = Append(ops, Op(name, a, Undef, FALSE))

HaltFrame == <<exit_code, bridge, in_reset, bringup, dhcsr, output>>

\* the warning that names no operation
UnsupportedOperationUnnamed(o) == <<"unsupported operation">>

\* warning("Unsupported semihosting operation 0x%X", operation)
UnsupportedOperation(o) == <<"unsupported operation", o>>


\* CheckRetry(target.read_word(SCB::DFSR, &dfsr), 100) and the test of the
\* halt reason
ReadDfsr ==
    /\ mpc = "hh_dfsr"
    /\ \E ok \in BOOLEAN :
         IF ok
         THEN /\ ops' = Append(ops, Op("read_word", DFSR_Address, t_dfsr, TRUE))
              /\ IF IsBkptHalt(t_dfsr)
                 THEN /\ mpc' = "hh_pc"
                      /\ dfsr' = t_dfsr
                      /\ attempts' = 1
                      /\ UNCHANGED <<hh_result, pc, instr_word, operation,
                                     parameter, warnings>>
                 ELSE /\ warnings' = Append(warnings,
                                        <<"unexpected reason", t_dfsr>>)
                      /\ HaltReturns("failure")
              /\ UNCHANGED <<retried, target>>
         ELSE RetryOrFail("read_word", DFSR_Address)
    /\ UNCHANGED HaltFrame

\* CheckRetry(target.read_register(Register::PC, &pc), 100)
ReadPc ==
    /\ mpc = "hh_pc"
    /\ \E ok \in BOOLEAN :
         IF ok
         THEN /\ ops' = Append(ops, Op("read_register", RegPC, t_pc, TRUE))
              /\ pc' = t_pc
              /\ mpc' = "hh_instr"
              /\ attempts' = 1
              /\ UNCHANGED <<hh_result, dfsr, instr_word, operation, parameter,
                             warnings, retried, target>>
         ELSE RetryOrFail("read_register", RegPC)
    /\ UNCHANGED HaltFrame

\* CheckRetry(target.read_word(instr_word_address, &instr_word), 100), the
\* extraction of the instruction and its test
ReadInstrWord ==
    /\ mpc = "hh_instr"
    /\ \E ok \in BOOLEAN :
         IF ok
         THEN LET address == InstrWordAddress(pc)
                  word    == TargetMemory(address)
                  instr   == ExtractInstr(pc, word)
              IN  /\ ops' = Append(ops, Op("read_word", address, word, TRUE))
                  /\ IF IsSemihostingBkpt(instr)
                     THEN /\ mpc' = "hh_r0"
                          /\ instr_word' = word
                          /\ attempts' = 1
                          /\ UNCHANGED <<hh_result, dfsr, pc, operation,
                                         parameter, warnings>>
                     ELSE /\ warnings' = Append(warnings,
                                 <<"unexpected breakpoint", instr, pc>>)
                          /\ HaltReturns("failure")
                  /\ UNCHANGED <<retried, target>>
         ELSE RetryOrFail("read_word", InstrWordAddress(pc))
    /\ UNCHANGED HaltFrame

\* CheckRetry(target.read_register(Register::R0, &operation), 100)
ReadR0 ==
    /\ mpc = "hh_r0"
    /\ \E ok \in BOOLEAN :
         IF ok
         THEN /\ ops' = Append(ops, Op("read_register", RegR0, t_r0, TRUE))
              /\ operation' = t_r0
              /\ mpc' = "hh_r1"
              /\ attempts' = 1
              /\ UNCHANGED <<hh_result, dfsr, pc, instr_word, parameter,
                             warnings, retried, target>>
         ELSE RetryOrFail("read_register", RegR0)
    /\ UNCHANGED HaltFrame

\* CheckRetry(target.read_register(Register::R1, &parameter), 100) and the
\* switch on the operation
ReadR1 ==
    /\ mpc = "hh_r1"
    /\ \E ok \in BOOLEAN :
         IF ok
         THEN /\ ops' = Append(ops, Op("read_register", RegR1, t_r1, TRUE))
              /\ IF IsWriteC(operation)
                 THEN /\ mpc' = "wc_putchar"
                      /\ parameter' = t_r1
                      /\ attempts' = 1
                      /\ UNCHANGED <<hh_result, dfsr, pc, instr_word,
                                     operation, warnings>>
                 ELSE /\ warnings' = Append(warnings,
                                 UnsupportedOperation(operation))
                      /\ HaltReturns("failure")
              /\ UNCHANGED <<retried, target>>
         ELSE RetryOrFail("read_register", RegR1)
    /\ UNCHANGED HaltFrame

(***************************************************************************)
(* write_char, the SYS_WRITEC operation: putchar, then fflush(stdout).     *)
(***************************************************************************)
\* a write_char that calls putchar twice
WriteCharPutcharTwice ==
    /\ mpc = "wc_putchar"
    /\ mpc' = "wc_fflush"
    /\ stdout_buf' = stdout_buf \o <<PutcharByte(parameter),
                                     PutcharByte(parameter)>>
    /\ ops' = Append(ops, Op("putchar", parameter,
                           Word(0, PutcharByte(parameter)), TRUE))
    /\ UNCHANGED <<exit_code, bridge, in_reset, bringup, attempts, locals,
                   hh_result, retried, warnings, console, target>>

WriteCharPutchar ==
    /\ mpc = "wc_putchar"
    /\ mpc' = "wc_fflush"
    /\ stdout_buf' = Append(stdout_buf, PutcharByte(parameter))
    /\ ops' = Append(ops, Op("putchar", parameter,
                           Word(0, PutcharByte(parameter)), TRUE))
    /\ UNCHANGED <<exit_code, bridge, in_reset, bringup, attempts, locals,
                   hh_result, retried, warnings, console, target>>

\* fflush(stdout); write_char returns success, the switch breaks and
\* handle_halt advances its pc: pc += 2
WriteCharFlush ==
    /\ mpc = "wc_fflush"
    /\ mpc' = "hh_wpc"
    /\ console' = console \o stdout_buf
    /\ stdout_buf' = <<>>
    /\ ops' = Append(ops, Op("fflush", Undef, Undef, TRUE))
    /\ pc' = AdvancePc(pc)
    /\ UNCHANGED <<exit_code, bridge, in_reset, bringup, attempts, dhcsr, dfsr,
                   instr_word, operation, parameter, hh_result, retried,
                   warnings, target>>

\* the PC written under Check: one attempt
WritePcOnce ==
    /\ mpc = "hh_wpc"
    /\ \E ok \in BOOLEAN :
         IF ok
         THEN /\ ops' = Append(ops, Op("write_register", RegPC, pc, TRUE))
              /\ t_pc' = pc
              /\ mpc' = "hh_resume"
              /\ attempts' = 1
              /\ UNCHANGED <<hh_result, dfsr, pc, instr_word, operation,
                             parameter, warnings, retried, t_halted, t_dfsr,
                             t_r0, t_r1, halts, h_pc>>
         ELSE /\ ops' = Append(ops, Op("write_register", RegPC, Undef, FALSE))
              /\ HaltReturns("failure")
              /\ retried' = TRUE
              /\ UNCHANGED <<warnings, target>>
    /\ UNCHANGED HaltFrame

\* CheckRetry(target.write_register(Register::PC, pc), 100)
WritePc ==
    /\ mpc = "hh_wpc"
    /\ \E ok \in BOOLEAN :
         IF ok
         THEN /\ ops' = Append(ops, Op("write_register", RegPC, pc, TRUE))
              /\ t_pc' = pc
              /\ mpc' = "hh_resume"
              /\ attempts' = 1
              /\ UNCHANGED <<hh_result, dfsr, pc, instr_word, operation,
                             parameter, warnings, retried, t_halted, t_dfsr,
                             t_r0, t_r1, halts, h_pc>>
         ELSE RetryOrFail("write_register", RegPC)
    /\ UNCHANGED HaltFrame

\* a handle_halt that returns success without resuming the target
ResumeForgotten ==
    /\ mpc = "hh_resume"
    /\ HaltReturns("success")
    /\ UNCHANGED <<ops, retried, warnings, target>>
    /\ UNCHANGED HaltFrame

\* Check(target.resume()); return Err::success
Resume ==
    /\ mpc = "hh_resume"
    /\ \E ok \in BOOLEAN :
         IF ok
         THEN /\ ops' = Append(ops, Op("resume", Undef, Undef, TRUE))
              /\ t_halted' = FALSE
              /\ HaltReturns("success")
         ELSE /\ ops' = Append(ops, Op("resume", Undef, Undef, FALSE))
              /\ UNCHANGED t_halted
              /\ HaltReturns("failure")
    /\ UNCHANGED <<retried, warnings, t_dfsr, t_pc, t_r0, t_r1, halts, h_pc>>
    /\ UNCHANGED HaltFrame

(***************************************************************************)
(* The dump tools: swddump.cpp drives the FTDI context itself, part_000 is *)
(* the same tool on top of the MPSSE class.  Both halt the target, map the *)
(* user flash at address zero and read the first count words.              *)
(***************************************************************************)
\* the --count values tried: a few small ones, the default, and values whose
\* byte bound does not fit 32 bits (the last one is a negative --count)
CountValues ==
    (0..MaxWords) \cup {DefaultCount}
        \cup {1073741824 + k : k \in 0..1} \cup {-2147483647}

\* dump_flash(target, CommandLine::count.get()): int to unsigned
ToUnsigned(c) == Word((c \div HalfMod) % HalfMod, c % HalfMod)

\* n*4 in unsigned arithmetic
TimesFour(n) ==
    LET lo == n[2] * 4
        hi == n[1] * 4 + (lo \div HalfMod)
    IN  Word(hi % HalfMod, lo % HalfMod)

\* a < b on unsigned words
WordLess(a, b) == a[1] < b[1] \/ (a[1] = b[1] /\ a[2] < b[2])

\* target.write_word(0x40048000, 2)
SYSMEMREMAP == Word(16388, 32768)
SYSMEMREMAP_MAP_USER_FLASH == Word(0, 2)

\* main: CheckCleanup(CommandLine::parse(...), failure)
DumpMainParse(here, next, exit) ==
    /\ mpc = here
    /\ \E parsed \in BOOLEAN :
         IF parsed
         THEN mpc' = next /\ count' \in CountValues /\ UNCHANGED exit_code
         ELSE mpc' = exit /\ exit_code' = 1 /\ UNCHANGED count
    /\ UNCHANGED <<bridge, session, requests, dump_i, dump_out>>

\* main: CheckCleanup(error_main(argc, argv), failure); return 0;
\* failure: print the error stack; return 1
DumpMainCheck(here, exit) ==
    /\ mpc = here
    /\ mpc' = exit
    /\ exit_code' = ExitCodeOf(em_result)
    /\ UNCHANGED <<bridge, session, requests, dump>>

\* run_experiment returns to swddump.cpp's error_main:
\* CheckCleanup(run_experiment(ftdi), experiment_failed), and a success
\* falls through to the same label
SwddumpExperimentReturns(result) ==
    /\ mpc' = "sd_l_experiment_failed"
    /\ check_error' = IF result = "failure" THEN "failure" ELSE check_error
    /\ UNCHANGED em_result

\* run_experiment returns to part_000's error_main:
\* Check(run_experiment(swd)); return Err::success
Part0ExperimentReturns(result) ==
    /\ mpc' = "p0_main_check"
    /\ em_result' = result
    /\ UNCHANGED check_error

\* run_experiment returns to the error_main of its tool
ExperimentReturns(tool, result) ==
    IF tool = "swddump"
    THEN SwddumpExperimentReturns(result)
    ELSE Part0ExperimentReturns(result)

\* Check(step) in run_experiment: on success go on, on failure return it
ExperimentStep(here, next, step, resetLine, mode, tool) ==
    /\ mpc = here
    /\ \E ok \in BOOLEAN :
         IF ok
         THEN /\ mpc' = next
              /\ bringup' = Append(bringup, step)
              /\ in_reset' = resetLine
              /\ bitmode' = mode
              /\ UNCHANGED <<check_error, em_result>>
         ELSE /\ ExperimentReturns(tool, "failure")
              /\ UNCHANGED <<bringup, in_reset, bitmode>>
    /\ UNCHANGED <<exit_code, held, released, attempts, locals, hh_result, ops,
                   retried, warnings, output, target, requests, dump>>

\* Check(target.halt()), Check(unmap_boot_sector(target)): an operation on
\* the target
ExperimentOp(here, next, name, a, v, tool) ==
    /\ mpc = here
    /\ \E ok \in BOOLEAN :
         /\ ops' = Append(ops, Op(name, a, v, ok))
         /\ IF ok
            THEN mpc' = next /\ UNCHANGED <<check_error, em_result>>
            ELSE ExperimentReturns(tool, "failure")
    /\ UNCHANGED <<exit_code, held, released, bitmode, in_reset, bringup,
                   attempts, locals, hh_result, retried, warnings, output,
                   target, requests, dump>>

\* dump_flash up to its loop: notice("First %u words of Flash:", n); i = 0
DumpFlashEnter(here, loop) ==
    /\ mpc = here
    /\ mpc' = loop
    /\ dump_i' = Word(0, 0)
    /\ UNCHANGED <<exit_code, bridge, session, requests, count, dump_out>>

\* i < (n*4)
DumpFlashBelowBound ==
    WordLess(dump_i, TimesFour(ToUnsigned(count)))

\* one turn of for (unsigned i = 0; i < (n*4); i += 4): read the word at i
\* and report it, or return the failure of the read; past the bound
\* dump_flash returns success, which run_experiment returns in turn
DumpFlashLoop(here, tool) ==
    /\ mpc = here
    /\ IF DumpFlashBelowBound
       THEN \E ok \in BOOLEAN :
              IF ok
              THEN /\ ops' = Append(ops, Op("read_word", dump_i,
                                            TargetMemory(dump_i), TRUE))
                   /\ dump_out' = Append(dump_out,
                                         <<dump_i, TargetMemory(dump_i)>>)
                   /\ dump_i' = WordAdd(dump_i, Word(0, 4))
                   /\ UNCHANGED <<mpc, check_error, em_result>>
              ELSE /\ ops' = Append(ops, Op("read_word", dump_i, Undef, FALSE))
                   /\ ExperimentReturns(tool, "failure")
                   /\ UNCHANGED <<dump_i, dump_out>>
       ELSE /\ ExperimentReturns(tool, "success")
            /\ UNCHANGED <<ops, dump_i, dump_out>>
    /\ UNCHANGED <<exit_code, held, released, bitmode, in_reset, bringup,
                   attempts, locals, hh_result, retried, warnings, output,
                   target, requests, count>>

\* a teardown call under CheckP or CheckStringP: its failure is returned
\* from error_main at once
TeardownChecked(here, next, ret, call, resource, mode) ==
    /\ mpc = here
    /\ \E ok \in BOOLEAN :
         IF ok
         THEN /\ mpc' = next
              /\ held' = held \ resource
              /\ released' = Append(released, call)
              /\ bitmode' = mode
              /\ UNCHANGED em_result
         ELSE /\ mpc' = ret
              /\ em_result' = "failure"
              /\ UNCHANGED <<held, released, bitmode>>
    /\ UNCHANGED <<exit_code, check_error, session, requests, dump>>

(***************************************************************************)
(* swddump.cpp                                                             *)
(***************************************************************************)
SwddumpMainParse == DumpMainParse("sd_main_parse", "sd_ftdi_init", "sd_exit")

SwddumpFtdiInit ==
    /\ BringUpStep("sd_ftdi_init", "sd_usb_open", "sd_l_init_failed",
                   {"ftdi"})
    /\ UNCHANGED <<requests, dump>>
SwddumpUsbOpen ==
    /\ BringUpStep("sd_usb_open", "sd_usb_reset", "sd_l_open_failed",
                   {"ftdi_dev"})
    /\ UNCHANGED <<requests, dump>>
SwddumpUsbReset ==
    /\ BringUpStep("sd_usb_reset", "sd_set_interface", "sd_l_reset_failed", {})
    /\ UNCHANGED <<requests, dump>>
SwddumpSetInterface ==
    /\ BringUpStep("sd_set_interface", "sd_read_chipid", "sd_l_reset_failed",
                   {})
    /\ UNCHANGED <<requests, dump>>
SwddumpReadChipid ==
    /\ BringUpStep("sd_read_chipid", "sd_swd_initialize", "sd_l_reset_failed",
                   {})
    /\ UNCHANGED <<requests, dump>>

SwddumpSwdInitialize ==
    ExperimentStep("sd_swd_initialize", "sd_reset_target", "swd.initialize",
                   in_reset, "mpsse", "swddump")
SwddumpResetTarget ==
    ExperimentStep("sd_reset_target", "sd_dap_reset", "swd.reset_target",
                   in_reset, bitmode, "swddump")
SwddumpDapResetState ==
    ExperimentStep("sd_dap_reset", "sd_target_init", "dap.reset_state",
                   in_reset, bitmode, "swddump")
SwddumpTargetInitialize ==
    ExperimentStep("sd_target_init", "sd_halt", "target.initialize",
                   in_reset, bitmode, "swddump")
SwddumpTargetHalt ==
    ExperimentOp("sd_halt", "sd_unmap", "halt", Undef, Undef,
                 "swddump")
SwddumpUnmapBootSector ==
    ExperimentOp("sd_unmap", "sd_dump_flash", "write_word", SYSMEMREMAP,
                 SYSMEMREMAP_MAP_USER_FLASH, "swddump")
SwddumpDumpFlashEnter == DumpFlashEnter("sd_dump_flash", "sd_dump_loop")
SwddumpDumpFlashLoop == DumpFlashLoop("sd_dump_loop", "swddump")

\* experiment_failed: CheckP(ftdi_set_bitmode(&ftdi, 0xFF, BITMODE_RESET))
SwddumpTeardownBitmode ==
    TeardownChecked("sd_l_experiment_failed", "sd_l_reset_failed",
                    "sd_main_check", "set_bitmode_reset", {}, "reset")
\* read_failed, interface_failed, reset_failed:
\* CheckStringP(ftdi_usb_close(&ftdi), ...)
SwddumpTeardownUsbClose ==
    TeardownChecked("sd_l_reset_failed", "sd_l_open_failed", "sd_main_check",
                    "ftdi_usb_close", {"ftdi_dev"}, bitmode)
\* open_failed: ftdi_deinit(&ftdi)
SwddumpTeardownFtdiDeinit ==
    /\ TeardownStep("sd_l_open_failed", "sd_l_init_failed", "ftdi_deinit",
                    "ftdi")
    /\ UNCHANGED <<requests, dump>>
\* init_failed: return check_error
SwddumpErrorMainReturn ==
    /\ mpc = "sd_l_init_failed"
    /\ mpc' = "sd_main_check"
    /\ em_result' = check_error
    /\ UNCHANGED <<exit_code, check_error, held, released, bitmode, session,
                   requests, dump>>

SwddumpMainCheck == DumpMainCheck("sd_main_check", "sd_exit")

(***************************************************************************)
(* part_000                                                                *)
(***************************************************************************)
Part0MainParse == DumpMainParse("p0_main_parse", "p0_lookup", "p0_exit")

\* Check(call) in error_main: on success go on, holding what the call
\* acquired; a failure is returned at once
Part0ErrorMainStep(here, next, succeeds, acquired) ==
    /\ mpc = here
    /\ IF succeeds
       THEN mpc' = next /\ held' = held \cup acquired /\ UNCHANGED em_result
       ELSE mpc' = "p0_main_check" /\ em_result' = "failure" /\ UNCHANGED held
    /\ UNCHANGED <<exit_code, check_error, released, bitmode, session,
                   requests, dump>>

\* Check(lookup_programmer(CommandLine::programmer.get(), &config))
Part0Lookup ==
    \E name \in ProgrammerNames :
        Part0ErrorMainStep("p0_lookup", "p0_mpsse_open",
                           LookupProgrammer(name), {})
\* Check(mpsse.open(config))
Part0MpsseOpen ==
    \E ok \in BOOLEAN :
        Part0ErrorMainStep("p0_mpsse_open", "p0_swd_initialize", ok, {"mpsse"})

Part0SwdInitialize ==
    ExperimentStep("p0_swd_initialize", "p0_enter_reset", "swd.initialize",
                   in_reset, "mpsse", "part_000")
Part0EnterReset ==
    ExperimentStep("p0_enter_reset", "p0_leave_reset", "swd.enter_reset",
                   TRUE, bitmode, "part_000")
Part0LeaveReset ==
    ExperimentStep("p0_leave_reset", "p0_dap_reset", "swd.leave_reset",
                   FALSE, bitmode, "part_000")
Part0DapResetState ==
    ExperimentStep("p0_dap_reset", "p0_target_init", "dap.reset_state",
                   in_reset, bitmode, "part_000")
Part0TargetInitialize ==
    ExperimentStep("p0_target_init", "p0_halt", "target.initialize",
                   in_reset, bitmode, "part_000")
Part0TargetHalt ==
    ExperimentOp("p0_halt", "p0_unmap", "halt", Undef, Undef,
                 "part_000")
Part0UnmapBootSector ==
    ExperimentOp("p0_unmap", "p0_dump_flash", "write_word", SYSMEMREMAP,
                 SYSMEMREMAP_MAP_USER_FLASH, "part_000")
Part0DumpFlashEnter == DumpFlashEnter("p0_dump_flash", "p0_dump_loop")
Part0DumpFlashLoop == DumpFlashLoop("p0_dump_loop", "part_000")

Part0MainCheck == DumpMainCheck("p0_main_check", "p0_exit")

(***************************************************************************)
(* History kept for the claims: the console byte of every SYS_WRITEC       *)
(* request the target halts at, in order.                                  *)
(***************************************************************************)
\* a halt with reason BKPT, on BKPT 0xAB, with R0 = 3
WriteCRequest(d, p, r) ==
    /\ d[2] % 32 = 2
    /\ LET word == TargetMemory(Word(p[1], p[2] - (p[2] % 4)))
       IN  (IF (p[2] \div 2) % 2 = 1 THEN word[1] ELSE word[2]) = 48811
    /\ r = Word(0, 3)

RecordRequest ==
    requests' = IF WriteCRequest(t_dfsr', t_pc', t_r0')
                THEN Append(requests, t_r1'[2] % 256)
                ELSE requests

\* what swdhost leaves alone
NotSwdhost == UNCHANGED <<requests, dump>>

(***************************************************************************)
(* The specification.                                                      *)
(***************************************************************************)
Next ==
    \/ MainParse /\ NotSwdhost
    \/ ErrorMainLookup /\ NotSwdhost
    \/ LibusbInit /\ NotSwdhost
    \/ FtdiInit /\ NotSwdhost
    \/ LibusbOpenDevice /\ NotSwdhost
    \/ LibusbGetDevice /\ NotSwdhost
    \/ FtdiSetInterface /\ NotSwdhost
    \/ FtdiUsbOpenDev /\ NotSwdhost
    \/ FtdiUsbReset /\ NotSwdhost
    \/ FtdiReadChipid /\ NotSwdhost
    \/ SwdInitialize /\ NotSwdhost
    \/ SwdEnterReset /\ NotSwdhost
    \/ DapResetState /\ NotSwdhost
    \/ TargetInitialize /\ NotSwdhost
    \/ TargetResetHaltState /\ NotSwdhost
    \/ SwdLeaveReset /\ NotSwdhost
    \/ TargetHalts /\ RecordRequest /\ UNCHANGED dump
    \/ HostPoll /\ NotSwdhost
    \/ ReadDfsr /\ NotSwdhost
    \/ ReadPc /\ NotSwdhost
    \/ ReadInstrWord /\ NotSwdhost
    \/ ReadR0 /\ NotSwdhost
    \/ ReadR1 /\ NotSwdhost
    \/ WriteCharPutchar /\ NotSwdhost
    \/ WriteCharFlush /\ NotSwdhost
    \/ WritePc /\ NotSwdhost
    \/ Resume /\ NotSwdhost
    \/ HostCheckHalt /\ NotSwdhost
    \/ TeardownBitmode /\ NotSwdhost
    \/ TeardownUsbClose /\ NotSwdhost
    \/ TeardownLibusbClose /\ NotSwdhost
    \/ TeardownFtdiDeinit /\ NotSwdhost
    \/ TeardownLibusbExit /\ NotSwdhost
    \/ ErrorMainReturn /\ NotSwdhost
    \/ MainCheckErrorMain /\ NotSwdhost

Spec == Init /\ [][Next]_vars

\* the program's own steps are taken as long as one can be
FairSpec == Spec /\ WF_vars(Next)

(***************************************************************************)
(* The three tools: one of them is run.                                    *)
(***************************************************************************)
ToolsInit ==
    /\ mpc \in {"main_parse", "sd_main_parse", "p0_main_parse"}
    /\ InitState

SwddumpNext ==
    \/ SwddumpMainParse
    \/ SwddumpFtdiInit
    \/ SwddumpUsbOpen
    \/ SwddumpUsbReset
    \/ SwddumpSetInterface
    \/ SwddumpReadChipid
    \/ SwddumpSwdInitialize
    \/ SwddumpResetTarget
    \/ SwddumpDapResetState
    \/ SwddumpTargetInitialize
    \/ SwddumpTargetHalt
    \/ SwddumpUnmapBootSector
    \/ SwddumpDumpFlashEnter
    \/ SwddumpDumpFlashLoop
    \/ SwddumpTeardownBitmode
    \/ SwddumpTeardownUsbClose
    \/ SwddumpTeardownFtdiDeinit
    \/ SwddumpErrorMainReturn
    \/ SwddumpMainCheck

Part0Next ==
    \/ Part0MainParse
    \/ Part0Lookup
    \/ Part0MpsseOpen
    \/ Part0SwdInitialize
    \/ Part0EnterReset
    \/ Part0LeaveReset
    \/ Part0DapResetState
    \/ Part0TargetInitialize
    \/ Part0TargetHalt
    \/ Part0UnmapBootSector
    \/ Part0DumpFlashEnter
    \/ Part0DumpFlashLoop
    \/ Part0MainCheck

ToolsNext == Next \/ SwddumpNext \/ Part0Next

ToolsSpec == ToolsInit /\ [][ToolsNext]_vars

(***************************************************************************)
(* What the claims speak of, computed apart from the program's operators.  *)
(***************************************************************************)
\* the program is inside handle_halt (hh_ret: it has just returned)
InHandleHalt ==
    mpc \in {"hh_dfsr", "hh_pc", "hh_instr", "hh_r0", "hh_r1", "wc_putchar",
             "wc_fflush", "hh_wpc", "hh_resume"}
HaltReturned == mpc = "hh_ret"

\* the halt reason, DFSR bits [4:0], is BKPT
ReasonIsBkpt(d) == d[2] % 32 = 2
\* DFSR bit 1
BkptBit(d) == (d[2] \div 2) % 2 = 1
\* the halfword the target holds at address p
HalfwordAt(p) ==
    LET word == TargetMemory(Word(p[1], p[2] - (p[2] % 4)))
    IN  IF (p[2] \div 2) % 2 = 1 THEN word[1] ELSE word[2]
\* p + 2 as a 32-bit value
PlusTwo(p) ==
    IF p[2] + 2 < 65536 THEN Word(p[1], p[2] + 2)
    ELSE Word((p[1] + 1) % 65536, p[2] + 2 - 65536)
\* the target halted at a semihosting request: BKPT 0xAB
SemihostingHalt == ReasonIsBkpt(t_dfsr) /\ HalfwordAt(h_pc) = 48811

OpsOf(kinds) == SelectSeq(ops, LAMBDA e : e.op \in kinds)
\* what handle_halt did to the target and the console, in order
Effects ==
    OpsOf({"putchar", "write_register", "write_word", "write_halfword",
           "write_byte", "resume"})
AllSucceeded == ~retried /\ \A i \in 1..Len(ops) : ops[i].ok

(***************************************************************************)
(* C1: when handle_halt has returned from a halt whose DFSR reason is BKPT,*)
(* whose instruction at PC is 0xBEAB and whose R0 is 3, and every target   *)
(* operation succeeded, it did exactly three things to the console and the *)
(* target, in this order: one byte written to the console, one write of    *)
(* the PC register with the PC read plus 2, one resume.                    *)
(***************************************************************************)
C1_RoundTrip ==
    (HaltReturned /\ SemihostingHalt /\ t_r0 = Word(0, 3) /\ AllSucceeded) =>
        /\ hh_result = "success"
        /\ Len(Effects) = 3
        /\ Effects[1].op = "putchar"
        /\ Effects[1].val = Word(0, t_r1[2] % 256)
        /\ Effects[2].op = "write_register"
        /\ Effects[2].arg = RegPC
        /\ Effects[2].val = PlusTwo(h_pc)
        /\ Effects[3].op = "resume"
        /\ Len(console) = halts
        /\ console[Len(console)] = t_r1[2] % 256
        /\ t_pc = PlusTwo(h_pc)
        /\ ~t_halted

\* the round trip of the spec: R1 = 'X', serviced
C1_Witness ==
    /\ HaltReturned /\ SemihostingHalt /\ AllSucceeded
    /\ t_r0 = Word(0, 3) /\ t_r1 = Word(0, 88)
    /\ hh_result = "success"
    /\ console = <<88>>
    /\ Len(Effects) = 3

(***************************************************************************)
(* C2: a BKPT 0xAB halt whose R0 is not 0x03 is never serviced: no byte    *)
(* reaches the console, PC is not written, the target is not resumed,      *)
(* handle_halt returns a failure, and from that return the session goes on *)
(* to terminate with exit code 1.                                          *)
(***************************************************************************)
C2_Unsupported == SemihostingHalt /\ t_r0 # Word(0, 3)

C2_UnsupportedState ==
    C2_Unsupported =>
        /\ Effects = <<>>
        /\ t_pc = h_pc
        /\ t_halted
        /\ Len(console) + Len(stdout_buf) = halts - 1
        /\ (HaltReturned => hh_result = "failure")
        /\ (mpc = "exit" => exit_code = 1)

C2_UnsupportedOperation ==
    /\ []C2_UnsupportedState
    /\ ((HaltReturned /\ C2_Unsupported) ~> (mpc = "exit" /\ exit_code = 1))

\* handle_halt has returned from a halt with R0 = 0x04 (SYS_WRITE0)
C2_Witness ==
    /\ HaltReturned /\ C2_Unsupported /\ AllSucceeded
    /\ t_r0 = Word(0, 4)
    /\ hh_result = "failure"
    /\ warnings = << <<"unsupported operation", Word(0, 4)>> >>

(***************************************************************************)
(* C3: when the halt reason in DFSR is not BKPT, handle_halt issues no     *)
(* operation besides the read of DFSR: no read of PC, R0, R1 or of the     *)
(* instruction word, no write of PC, no resume, nothing on the console;    *)
(* and it returns a failure.                                               *)
(***************************************************************************)
C3_UnexpectedReason ==
    (~ReasonIsBkpt(t_dfsr) /\ (InHandleHalt \/ HaltReturned)) =>
        /\ mpc \in {"hh_dfsr", "hh_ret"}
        /\ Len(ops) <= 1
        /\ \A i \in 1..Len(ops) :
               ops[i].op = "read_word" /\ ops[i].arg = DFSR_Address
        /\ (HaltReturned => hh_result = "failure")
        /\ stdout_buf = <<>>
        /\ Len(console) = halts - 1
        /\ t_pc = h_pc
        /\ t_halted

\* handle_halt has returned from a halt whose DFSR holds HALTED alone
C3_Witness ==
    /\ HaltReturned /\ AllSucceeded
    /\ t_dfsr = Word(0, 1)
    /\ Len(ops) = 1
    /\ hh_result = "failure"

(***************************************************************************)
(* C4: when the halt reason is BKPT and the halfword at PC is not 0xBEAB,  *)
(* handle_halt reads neither R0 nor R1, writes no console byte, does not   *)
(* write PC, does not resume, and returns a failure.                       *)
(***************************************************************************)
C4_OtherBreakpoint == ReasonIsBkpt(t_dfsr) /\ HalfwordAt(h_pc) # 48811

C4_UnexpectedBreakpoint ==
    (C4_OtherBreakpoint /\ (InHandleHalt \/ HaltReturned)) =>
        /\ mpc \in {"hh_dfsr", "hh_pc", "hh_instr", "hh_ret"}
        /\ Effects = <<>>
        /\ \A i \in 1..Len(ops) :
               ops[i].op = "read_register" => ops[i].arg = RegPC
        /\ (HaltReturned => hh_result = "failure")
        /\ stdout_buf = <<>>
        /\ Len(console) = halts - 1
        /\ t_pc = h_pc
        /\ t_halted

\* handle_halt has returned from a halt at a BKPT 0x01
C4_Witness ==
    /\ HaltReturned /\ C4_OtherBreakpoint /\ AllSucceeded
    /\ Len(ops) = 3
    /\ hh_result = "failure"
    /\ warnings = << <<"unexpected breakpoint", 48641, Word(0, 2)>> >>

(***************************************************************************)
(* C5: besides the read of DFSR, handle_halt reads one memory word, the    *)
(* one at PC & ~0x3, after it read PC; the instruction it compares with    *)
(* 0xBEAB is the high halfword of that word when PC & 2 is set and the low *)
(* halfword otherwise; it issues no halfword or byte access.               *)
(***************************************************************************)
WordBase(p) == Word(p[1], p[2] - (p[2] % 4))

C5_InstructionFetch ==
    /\ \A i \in 1..Len(ops) :
           /\ ops[i].op \in {"read_word", "read_register", "write_register",
                             "putchar", "fflush", "resume"}
           /\ ops[i].op = "read_word" =>
                  \/ i = 1 /\ ops[i].arg = DFSR_Address
                  \/ i = 3 /\ ops[i].arg = WordBase(h_pc)
    /\ Len(ops) >= 3 => ops[3].op = "read_word"
    /\ (Len(ops) >= 3 /\ ops[3].ok) =>
           /\ ops[3].val = TargetMemory(WordBase(h_pc))
           /\ IF HalfwordAt(h_pc) = 48811
              THEN /\ \A w \in 1..Len(warnings) :
                          warnings[w][1] # "unexpected breakpoint"
                   /\ HaltReturned => Len(ops) > 3
              ELSE /\ HaltReturned /\ Len(ops) = 3
                   /\ warnings =
                        << <<"unexpected breakpoint", HalfwordAt(h_pc), h_pc>> >>

\* the instruction at 0x102 was taken from the high halfword of the word
\* at 0x100
C5_Witness ==
    /\ mpc = "hh_r0"
    /\ h_pc = Word(0, 258)
    /\ Len(ops) = 3
    /\ ops[3].arg = Word(0, 256)
    /\ instr_word = Word(48811, 48641)

(***************************************************************************)
(* C6: servicing SYS_WRITEC puts exactly one byte on the console, the byte *)
(* R1 & 0xFF; the console is flushed before the next target operation; R0  *)
(* is not written.                                                         *)
(***************************************************************************)
C6_WriteC ==
    LET written == OpsOf({"putchar"})
        out     == console \o stdout_buf
    IN  /\ Len(written) <= 1
        /\ (InHandleHalt \/ HaltReturned) =>
               Len(out) = (halts - 1) + Len(written)
        /\ Len(written) = 1 =>
               /\ t_r0 = Word(0, 3)
               /\ out[Len(out)] = t_r1[2] % 256
        /\ (HaltReturned /\ hh_result = "success") => Len(written) = 1
        /\ \A i \in 1..Len(ops) : \A j \in 1..Len(ops) :
               ( /\ i < j
                 /\ ops[i].op = "putchar"
                 /\ ops[j].op \in {"read_word", "read_register",
                                   "write_register", "resume"} ) =>
                   \E k \in (i + 1)..(j - 1) : ops[k].op = "fflush"
        /\ mpc \in {"hh_wpc", "hh_resume"} => stdout_buf = <<>>
        /\ \A i \in 1..Len(ops) :
               ops[i].op = "write_register" => ops[i].arg # RegR0

\* R1 = 0x12345641 has put the byte 0x41 on the console, flushed
C6_Witness ==
    /\ mpc = "hh_wpc"
    /\ t_r1 = Word(4660, 22081)
    /\ console = <<65>>
    /\ stdout_buf = <<>>

(***************************************************************************)
(* C7: every value written to the PC register is the PC read in the same   *)
(* handle_halt plus 2, modulo 2^32; no other register is written; the      *)
(* target's PC is the PC it halted at or that plus 2, so an even PC stays  *)
(* even.                                                                   *)
(***************************************************************************)
C7_PcAdvance ==
    /\ \A i \in 1..Len(ops) :
           (ops[i].op = "write_register" /\ ops[i].ok) =>
               /\ ops[i].arg = RegPC
               /\ ops[2].op = "read_register"
               /\ ops[2].arg = RegPC
               /\ ops[2].ok
               /\ ops[i].val = PlusTwo(ops[2].val)
    /\ t_pc \in {h_pc, PlusTwo(h_pc)}
    /\ h_pc[2] % 2 = 0 => t_pc[2] % 2 = 0

\* the PC 0xFFFFFFFE was advanced to 0
C7_Witness ==
    /\ HaltReturned
    /\ hh_result = "success"
    /\ h_pc = Word(65535, 65534)
    /\ t_pc = Word(0, 0)

(***************************************************************************)
(* C8: handle_halt runs only in a loop iteration whose poll of DHCSR       *)
(* returned S_HALT = 1; the target is halted whenever a core register is   *)
(* about to be read or written; no core register is accessed after the     *)
(* resume.                                                                 *)
(***************************************************************************)
C8_HaltedAccess ==
    /\ InHandleHalt => dhcsr # Undef /\ (dhcsr[1] \div 2) % 2 = 1
    /\ mpc \in {"hh_pc", "hh_r0", "hh_r1", "hh_wpc"} => t_halted
    /\ \A i \in 1..Len(ops) : \A j \in 1..Len(ops) :
           (i < j /\ ops[i].op = "resume") =>
               ops[j].op \notin {"read_register", "write_register"}

\* the second halt of the session: R1 is about to be read
C8_Witness ==
    /\ mpc = "hh_r1"
    /\ halts = 2
    /\ t_halted
    /\ Len(ops) = 4

(***************************************************************************)
(* C9: a successful handle_halt is followed by the poll of DHCSR; the loop *)
(* is left only by a poll that failed its last attempt or by a handle_halt *)
(* that returned a failure, and then host_main returns a failure; a        *)
(* session that entered the loop never ends with exit code 0.              *)
(***************************************************************************)
InLoop == mpc = "hm_poll" \/ InHandleHalt \/ HaltReturned

C9_LoopStep ==
    /\ (HaltReturned /\ hh_result = "success") => mpc' = "hm_poll"
    /\ (InLoop /\ ~InLoop') =>
           /\ mpc' = "l_host_failed"
           /\ check_error' = "failure"
           /\ \/ mpc = "hm_poll" /\ attempts = RetryBound
              \/ HaltReturned /\ hh_result = "failure"

C9_LoopEntered == Len(bringup) = 6

C9_PollLoop ==
    /\ [][C9_LoopStep]_vars
    /\ []((C9_LoopEntered /\ mpc = "exit") =>
              exit_code = 1 /\ em_result = "failure")

\* the loop is polling again after a serviced halt
C9_Witness ==
    /\ mpc = "hm_poll"
    /\ halts = 1
    /\ ~t_halted
    /\ console = <<88>>
    /\ ops = <<>>

(***************************************************************************)
(* C10, as claimed: whether handle_halt inspects the instruction depends   *)
(* only on the BKPT bit of DFSR: any DFSR value that agrees in that bit    *)
(* with the value read is sent down the branch that was taken.             *)
(***************************************************************************)
DfsrRead == (InHandleHalt \/ HaltReturned) /\ Len(ops) >= 1 /\ ops[1].ok
\* handle_halt went on to inspect the instruction
InspectBranch == mpc # "hh_dfsr" /\ ~(HaltReturned /\ Len(ops) = 1)

C10_BkptBitOnly ==
    DfsrRead =>
        \A d \in DfsrValues :
            BkptBit(d) = BkptBit(t_dfsr) => (IsBkptHalt(d) <=> InspectBranch)

(***************************************************************************)
(* C10, amended: the branch depends only on DFSR bits [4:0]: handle_halt   *)
(* inspects the instruction exactly when those bits are 0b00010, BKPT and  *)
(* no other reason, and any DFSR value that agrees in bits [4:0] with the  *)
(* value read is sent down the branch that was taken.                      *)
(***************************************************************************)
C10_ReasonField ==
    DfsrRead =>
        /\ InspectBranch <=> ReasonIsBkpt(t_dfsr)
        /\ \A d \in DfsrValues :
               d[2] % 32 = t_dfsr[2] % 32 => (IsBkptHalt(d) <=> InspectBranch)

\* DFSR = BKPT | HALTED was reported as an unexpected halt reason
C10_Witness ==
    /\ HaltReturned /\ AllSucceeded
    /\ t_dfsr = Word(0, 3)
    /\ Len(ops) = 1
    /\ hh_result = "failure"
    /\ warnings = << <<"unexpected reason", Word(0, 3)>> >>

(***************************************************************************)
(* C11: when handle_halt has returned and none of its target operations    *)
(* failed, it returned an error exactly when it logged a warning, and it   *)
(* logged at most one.  A halt whose DFSR reason is not BKPT left exactly  *)
(* the "unexpected reason" warning with the DFSR value; a BKPT halt on an  *)
(* instruction other than 0xBEAB left exactly the "unexpected breakpoint"  *)
(* warning with the instruction and the PC; a BKPT 0xAB halt whose R0 is   *)
(* not 3 left exactly the "unsupported operation" warning with R0.  Each   *)
(* of the three returned an error.                                         *)
(***************************************************************************)
NoOpFailed == \A k \in 1..Len(ops) : ops[k].ok

C11_WarnedErrors ==
    (HaltReturned /\ NoOpFailed) =>
        /\ Len(warnings) <= 1
        /\ (hh_result = "failure") <=> (Len(warnings) = 1)
        /\ ~ReasonIsBkpt(t_dfsr) =>
              /\ warnings = << <<"unexpected reason", t_dfsr>> >>
              /\ hh_result = "failure"
        /\ C4_OtherBreakpoint =>
              /\ warnings =
                    << <<"unexpected breakpoint", HalfwordAt(h_pc), h_pc>> >>
              /\ hh_result = "failure"
        /\ C2_Unsupported =>
              /\ warnings = << <<"unsupported operation", t_r0>> >>
              /\ hh_result = "failure"

\* an unsupported operation has been refused, with its warning
C11_Witness ==
    /\ HaltReturned /\ NoOpFailed
    /\ C2_Unsupported
    /\ hh_result = "failure"
    /\ warnings = << <<"unsupported operation", Word(0, 4)>> >>

(***************************************************************************)
(* C12: in each of the three tools, when main has returned, it returned 1  *)
(* exactly when the command line did not parse (error_main never ran) or   *)
(* error_main returned an error, and 0 exactly when error_main returned    *)
(* success.  An error that error_main recorded in check_error is what it   *)
(* returns, and main returns 0 only from a session in which no step        *)
(* failed: every target operation succeeded, the bring-up is complete and  *)
(* the dump loop ran to its bound.                                         *)
(***************************************************************************)
Exited == mpc \in {"exit", "sd_exit", "p0_exit"}
BackInMain == mpc \in {"main_check", "sd_main_check", "p0_main_check"}

\* the steps run_experiment checks before the target is halted
SwddumpBringUp ==
    <<"swd.initialize", "swd.reset_target", "dap.reset_state",
      "target.initialize">>
Part0BringUp ==
    <<"swd.initialize", "swd.enter_reset", "swd.leave_reset",
      "dap.reset_state", "target.initialize">>

C12_ExitCode ==
    /\ Exited =>
          /\ exit_code \in {0, 1}
          /\ (exit_code = 1) <=> (em_result \in {"none", "failure"})
          /\ (exit_code = 0) <=> (em_result = "success")
          /\ check_error = "failure" => exit_code = 1
          /\ exit_code = 0 =>
                /\ mpc # "exit"
                /\ NoOpFailed
                /\ bringup = (IF mpc = "sd_exit" THEN SwddumpBringUp
                                                 ELSE Part0BringUp)
                /\ Len(ops) >= 2
                /\ ~DumpFlashBelowBound
    /\ BackInMain =>
          /\ em_result \in {"success", "failure"}
          /\ check_error = "failure" => em_result = "failure"
          /\ (\E k \in 1..Len(ops) : ~ops[k].ok) => em_result = "failure"

\* a flash read failed in the dump tool, and main returned 1
C12_Witness ==
    /\ mpc = "p0_exit"
    /\ exit_code = 1
    /\ Len(ops) = 4
    /\ ops[4].op = "read_word" /\ ~ops[4].ok

(***************************************************************************)
(* C13: in swdhost and swddump.cpp the teardown calls are made in the      *)
(* reverse order of the bring-up, the FTDI device is never closed while    *)
(* the bridge is in MPSSE mode, and when error_main has returned the bit   *)
(* mode is reset, the teardown made is the tail of the reverse order that  *)
(* starts at the failed step's label, and nothing acquired is still held.  *)
(***************************************************************************)
SwdhostTeardown ==
    <<"set_bitmode_reset", "ftdi_usb_close", "libusb_close", "ftdi_deinit",
      "libusb_exit">>
SwddumpTeardown == <<"set_bitmode_reset", "ftdi_usb_close", "ftdi_deinit">>

IsTailOf(tail, order) ==
    \E k \in 0..Len(order) : tail = SubSeq(order, k + 1, Len(order))

C13_ReverseTeardown ==
    /\ (bitmode = "mpsse" /\ "mpsse" \notin held) => "ftdi_dev" \in held
    /\ mpc = "main_check" =>
          /\ IsTailOf(released, SwdhostTeardown)
          /\ held = {}
          /\ bitmode = "reset"
    /\ mpc = "sd_main_check" =>
          /\ IsTailOf(released, SwddumpTeardown)
          /\ held = {}
          /\ bitmode = "reset"

\* the same with the teardown that a failed teardown call cuts short: what
\* was released is a stretch of the reverse order, and everything is released
\* when error_main returns check_error
IsStretchOf(part, order) ==
    \E k \in 0..Len(order) : \E n \in 0..(Len(order) - k) :
        part = SubSeq(order, k + 1, k + n)

C13_TeardownOrder ==
    /\ (bitmode = "mpsse" /\ "mpsse" \notin held) => "ftdi_dev" \in held
    /\ mpc = "main_check" => IsStretchOf(released, SwdhostTeardown)
    /\ mpc = "sd_main_check" => IsStretchOf(released, SwddumpTeardown)
    /\ mpc \in {"l_libusb_init_failed", "sd_l_init_failed"} =>
          held = {} /\ bitmode = "reset"

(***************************************************************************)
(* C19: in swdhost and swddump.cpp a teardown step that fails does not end *)
(* error_main: from the bit mode reset and from the FTDI close the program *)
(* goes on to the next teardown step, never back to main.  No teardown     *)
(* call is made twice, a resource is released only while held, and when    *)
(* error_main has returned nothing is held.                                *)
(***************************************************************************)
CheckedTeardown ==
    mpc \in {"l_host_failed", "l_reset_failed", "sd_l_experiment_failed",
             "sd_l_reset_failed"}

NoDuplicates(seq) ==
    \A a, b \in 1..Len(seq) : seq[a] = seq[b] => a = b

C19_ReleaseStep ==
    /\ CheckedTeardown => ~BackInMain'
    /\ held' \subseteq held \/ released' = released
    /\ Len(released') > Len(released) =>
          (held' = held) \/ (Cardinality(held \ held') = 1)

C19_TeardownCompletes ==
    /\ [][C19_ReleaseStep]_vars
    /\ [](NoDuplicates(released))
    /\ [](mpc \in {"main_check", "sd_main_check"} => held = {})

(***************************************************************************)
(* C14: in swdhost and in both dump tools the steps swd.initialize,        *)
(* dap.reset_state and target.initialize succeed in this order; the        *)
(* program is at a target operation, or has issued one, only when all      *)
(* three have succeeded; a bring-up step that fails adds nothing to the    *)
(* bring-up and returns the failure from host_main or run_experiment, and  *)
(* once the session function has returned no step or target operation      *)
(* follows.                                                                *)
(***************************************************************************)
CoreOrder == <<"swd.initialize", "dap.reset_state", "target.initialize">>
CoreBringUp ==
    SelectSeq(bringup, LAMBDA step : step \in {"swd.initialize",
                                               "dap.reset_state",
                                               "target.initialize"})

BringUpPositions ==
    {"hm_initialize", "hm_enter_reset", "hm_dap_reset", "hm_target_init",
     "hm_reset_halt_state", "hm_leave_reset",
     "sd_swd_initialize", "sd_reset_target", "sd_dap_reset", "sd_target_init",
     "p0_swd_initialize", "p0_enter_reset", "p0_leave_reset", "p0_dap_reset",
     "p0_target_init"}
\* where the next step of the program is an operation on the target
TargetOpPositions ==
    {"hm_reset_halt_state", "hm_poll", "hh_dfsr", "hh_pc", "hh_instr",
     "hh_r0", "hh_r1", "hh_wpc", "hh_resume",
     "sd_halt", "sd_unmap", "sd_dump_flash", "sd_dump_loop",
     "p0_halt", "p0_unmap", "p0_dump_flash", "p0_dump_loop"}
\* where host_main or run_experiment has returned to
SessionReturned ==
    mpc \in {"l_host_failed", "l_reset_failed", "l_get_failed",
             "l_libusb_open_failed", "l_ftdi_init_failed",
             "l_libusb_init_failed", "main_check", "exit",
             "sd_l_experiment_failed", "sd_l_reset_failed",
             "sd_l_open_failed", "sd_l_init_failed", "sd_main_check",
             "sd_exit", "p0_main_check", "p0_exit"}

C14_Ordered ==
    /\ \E k \in 0..3 : CoreBringUp = SubSeq(CoreOrder, 1, k)
    /\ (mpc \in TargetOpPositions \/ Len(ops) > 0
          \/ "target.reset_halt_state" \in {bringup[k] : k \in 1..Len(bringup)})
         => CoreBringUp = CoreOrder

C14_Step ==
    /\ mpc \in BringUpPositions =>
          \/ /\ bringup' # bringup
             /\ ~SessionReturned'
          \/ /\ bringup' = bringup
             /\ mpc' \in {"l_host_failed", "sd_l_experiment_failed",
                           "p0_main_check"}
             /\ check_error' = "failure" \/ em_result' = "failure"
    /\ SessionReturned => bringup' = bringup /\ ops' = ops /\ SessionReturned'

C14_BringUpOrder == [](C14_Ordered) /\ [][C14_Step]_vars

\* swddump.cpp has halted the target, after the three steps
C14_Witness ==
    /\ mpc = "sd_unmap"
    /\ Len(ops) = 1 /\ ops[1].op = "halt" /\ ops[1].ok
    /\ CoreBringUp = CoreOrder

(***************************************************************************)
(* C15: in both dump tools the first target operation is the halt and the  *)
(* second the write of 2 to SYSMEMREMAP at 0x40048000, both ahead of any   *)
(* flash read; the k-th flash read is at address 4(k-1); only the last     *)
(* operation can have failed, so a failed remap write or flash read is     *)
(* followed by no read; and when run_experiment has returned success the   *)
(* lines reported are the words at 0, 4, ..., 4(n-1), n of them, for the   *)
(* word count n given to dump_flash.                                       *)
(***************************************************************************)
\* run_experiment has returned success to error_main
ExperimentSucceeded ==
    \/ mpc = "sd_l_experiment_failed" /\ check_error = "success"
    \/ mpc = "p0_main_check" /\ em_result = "success"

FlashAddress(k) == Word(0, 4 * (k - 1))

C15_DumpOrder ==
    /\ Len(ops) >= 2 /\ ops[2].op = "write_word" =>
          /\ ops[1] = Op("halt", Undef, Undef, TRUE)
          /\ ops[2] = Op("write_word", Word(16388, 32768), Word(0, 2),
                         ops[2].ok)
    /\ \A k \in 1..Len(ops) :
          /\ ops[k].op = "read_word" /\ ops[1].op = "halt" =>
                /\ k >= 3
                /\ ops[2].op = "write_word"
                /\ ops[k].arg = FlashAddress(k - 2)
          /\ ~ops[k].ok => k = Len(ops)
    /\ \A k \in 1..Len(dump_out) :
          /\ Len(ops) >= k + 2
          /\ ops[k + 2].ok
          /\ dump_out[k] = <<FlashAddress(k), TargetMemory(FlashAddress(k))>>

C15_DumpInOrder ==
    /\ C15_DumpOrder
    /\ ExperimentSucceeded => Word(0, Len(dump_out)) = ToUnsigned(count)

\* the same for the word counts whose byte bound fits 32 bits
C15_DumpBelowWrap ==
    /\ C15_DumpOrder
    /\ (ExperimentSucceeded /\ count >= 0 /\ count < 1073741824) =>
          Len(dump_out) = count

(***************************************************************************)
(* C20: when dump_flash has returned success in either dump tool, the      *)
(* number of flash reads it issued is the word count n it was given, for   *)
(* every 32-bit n, a negative --count converted to unsigned included.      *)
(***************************************************************************)
FlashReads == Len(OpsOf({"read_word"}))

C20_ExactlyNReads ==
    ExperimentSucceeded => Word(0, FlashReads) = ToUnsigned(count)

\* what the loop does: n modulo 2^30 reads
C20_ReadsModulo ==
    ExperimentSucceeded =>
        Word(0, FlashReads) =
            Word(ToUnsigned(count)[1] % 16384, ToUnsigned(count)[2])

(***************************************************************************)
(* C16: the attempt counter of a retried step stays within 1..100.  At a   *)
(* retried step (the DHCSR poll; the DFSR, PC, instruction word, R0 and R1 *)
(* reads; the PC write) a failure leaves the step only from attempt 100,   *)
(* an earlier failed attempt stays at the step and does nothing but count, *)
(* and a success goes on with a fresh counter.  The console write, the     *)
(* flush and the resume are at attempt 1 and each leaves its position in   *)
(* one step with one logged operation, whether it succeeded or not.        *)
(***************************************************************************)
RetriedPositions ==
    {"hm_poll", "hh_dfsr", "hh_pc", "hh_instr", "hh_r0", "hh_r1", "hh_wpc"}
SinglePositions == {"wc_putchar", "wc_fflush", "hh_resume"}

\* the step taken surfaces a failure of the retried step
FailureSurfaces ==
    \/ mpc = "hm_poll" /\ mpc' = "l_host_failed"
    \/ /\ mpc # "hm_poll"
       /\ mpc' = "hh_ret"
       /\ Len(ops') = Len(ops) + 1
       /\ ~ops'[Len(ops')].ok

C16_Step ==
    /\ (mpc \in RetriedPositions /\ FailureSurfaces) => attempts = 100
    /\ (mpc \in RetriedPositions /\ attempts' > attempts) =>
          /\ attempts' = attempts + 1
          /\ attempts < 100
          /\ mpc' = mpc
          /\ ops' = ops /\ target' = target /\ output' = output
    /\ (mpc \in RetriedPositions /\ mpc' # mpc) => attempts' = 1
    /\ mpc \in SinglePositions =>
          /\ mpc' # mpc
          /\ Len(ops') = Len(ops) + 1
          /\ attempts' = 1

C16_Bounded ==
    /\ attempts \in 1..100
    /\ mpc \notin RetriedPositions => attempts = 1

Emitted == console \o stdout_buf

C17_Console ==
    /\ Len(Emitted) <= Len(requests)
    /\ Emitted = SubSeq(requests, 1, Len(Emitted))
    /\ Len(requests) <= Len(console) + 1
    /\ ~t_halted => console = requests /\ stdout_buf = <<>>
    /\ (HaltReturned /\ hh_result = "success") =>
          /\ console = requests
          /\ WriteCRequest(t_dfsr, h_pc, t_r0)
          /\ Len(OpsOf({"putchar"})) = 1
          /\ Len(OpsOf({"write_register"})) = 1
          /\ Len(OpsOf({"resume"})) = 1

C17_Emit ==
    Emitted' # Emitted =>
        /\ Len(Emitted') = Len(Emitted) + 1
        /\ t_halted /\ t_halted'
        /\ WriteCRequest(t_dfsr, h_pc, t_r0)

C17_ConsoleStream == [](C17_Console) /\ [][C17_Emit]_vars

\* two requests served: 'X', then the low byte of 0x12345641
C17_Witness ==
    /\ mpc = "hm_poll"
    /\ ~t_halted
    /\ halts = 2
    /\ requests = <<88, 65>>
    /\ console = requests

(***************************************************************************)
(* C18: host_main and the dump tools' run_experiment return with the       *)
(* target's reset line asserted, that is after a successful enter_reset    *)
(* that no successful leave_reset has followed, only from the call of      *)
(* leave_reset itself: on every other path leave_reset has been called     *)
(* and has released the line before the function returns.                  *)
(***************************************************************************)
C18_Return ==
    (~SessionReturned /\ SessionReturned' /\ in_reset) =>
        mpc \in {"hm_leave_reset", "p0_leave_reset"}

C18_ResetReleased == [][C18_Return]_vars

\* the same for the dump tools alone
C18_DumpReturn ==
    (~SessionReturned /\ SessionReturned' /\ in_reset
        /\ mpc' \in {"sd_l_experiment_failed", "p0_main_check"}) =>
        mpc = "p0_leave_reset"

C18_DumpResetReleased == [][C18_DumpReturn]_vars

====
